---- MODULE Spec2Model ----
(***************************************************************************)
(* A model of the mundi recipe tooling: the conda-forge shard cache        *)
(* (recipes/scripts/sync_conda_forge.py) and the dependency-graph rebuild  *)
(* analyzer (recipes/scripts/dep_graph.py).                                *)
(*                                                                         *)
(* Strings are sequences of one-character strings.  The token "sup2"       *)
(* stands for the single character U+00B2 (superscript two), for which     *)
(* Python's str.isdigit() is true and int() raises ValueError.             *)
(***************************************************************************)
EXTENDS Integers, Sequences, FiniteSets, TLC

\* ------------------------------------------------------------------------
\* Bounds of the model
\* ------------------------------------------------------------------------
MaxVerLen == 3

MaxPatLen == 3

\* Tracked package names are 1..MaxNames (their order is the sort order).
MaxNames == 2

\* Shard payloads (byte strings) are 1..MaxBytes.
MaxBytes == 3

\* Sync runs and upstream index changes in one behaviour.
MaxRuns == 2

MaxChanges == 1

\* Package names of the dependency graph are 1..MaxPkgs.
MaxPkgs == 3

\* ------------------------------------------------------------------------
\* Values shared by the whole model
\* ------------------------------------------------------------------------
None == "None"

\* A ValueError leaving parse_version: a tuple no version parses to.
ValueError == <<-1>>

Max(a, b) == IF a >= b THEN a ELSE b

Min(a, b) == IF a <= b THEN a ELSE b

\* ------------------------------------------------------------------------
\* Characters and strings
\* ------------------------------------------------------------------------
DecimalDigits == {"0", "1", "2", "3", "4", "5", "6", "7", "8", "9"}

SuperDigits == {"sup2"}

\* str.isdigit(): true of the decimal digits and of digit-like characters
\* such as U+00B2 that int() does not accept.
isdigit(c) == c \in DecimalDigits \cup SuperDigits

DigitVal(c) ==
    CASE c = "0" -> 0 [] c = "1" -> 1 [] c = "2" -> 2 [] c = "3" -> 3
      [] c = "4" -> 4 [] c = "5" -> 5 [] c = "6" -> 6 [] c = "7" -> 7
      [] c = "8" -> 8 [] c = "9" -> 9

RECURSIVE DecimalValue(_)
DecimalValue(num) ==
    IF Len(num) = 0 THEN 0
    ELSE 10 * DecimalValue(SubSeq(num, 1, Len(num) - 1)) + DigitVal(num[Len(num)])

\* int(num) for a string of isdigit() characters: the decimal value, or -1
\* for the ValueError it raises when a character is not a decimal digit.
int(num) ==
    IF \E i \in 1..Len(num) : num[i] \notin DecimalDigits
    THEN -1
    ELSE DecimalValue(num)

\* ver.replace("-", ".")
ReplaceDash(ver) == [i \in 1..Len(ver) |-> IF ver[i] = "-" THEN "." ELSE ver[i]]

\* s.split("."): always at least one segment; "" splits to [""].
RECURSIVE SplitDot(_)
SplitDot(s) ==
    IF \A i \in 1..Len(s) : s[i] # "."
    THEN <<s>>
    ELSE LET i == CHOOSE k \in 1..Len(s) :
                     s[k] = "." /\ \A j \in 1..(k - 1) : s[j] # "."
         IN  <<SubSeq(s, 1, i - 1)>> \o SplitDot(SubSeq(s, i + 1, Len(s)))

\* The number of occurrences of character c in s: s.count(c).
count(s, c) == Cardinality({i \in 1..Len(s) : s[i] = c})

\* ------------------------------------------------------------------------
\* sync_conda_forge.parse_version
\* ------------------------------------------------------------------------
\* The inner loop: the leading run of isdigit() characters of a segment.
LeadingDigits(p) ==
    LET n == CHOOSE k \in 0..Len(p) :
                 /\ \A i \in 1..k : isdigit(p[i])
                 /\ (k < Len(p) => ~isdigit(p[k + 1]))
    IN  SubSeq(p, 1, n)

\* parts.append(int(num) if num else 0)
PartOf(num) == IF Len(num) = 0 THEN 0 ELSE int(num)

\* A ValueError raised by any int() call leaves the function.
Raise(parts) ==
    IF \E i \in 1..Len(parts) : parts[i] < 0 THEN ValueError ELSE parts

parse_version(ver) ==
    LET segs == SplitDot(ReplaceDash(ver))
    IN  Raise([i \in 1..Len(segs) |-> PartOf(LeadingDigits(segs[i]))])

\* ------------------------------------------------------------------------
\* dep_graph.parse_version and dep_graph.version_bound
\* ------------------------------------------------------------------------
\* "".join(c for c in p if c.isdigit()): every digit of the segment.
AllDigits(p) == SelectSeq(p, isdigit)

dep_graph_parse_version(ver) ==
    LET segs == SplitDot(ReplaceDash(ver))
    IN  Raise([i \in 1..Len(segs) |-> PartOf(AllDigits(segs[i]))])

\* (parse_version(version) + (0,) * n)[:n]
version_bound(version, upper_bound) ==
    LET n == count(upper_bound, "x")
    IN  IF n = 0 THEN <<>>
        ELSE LET pv == dep_graph_parse_version(version)
             IN  IF pv = ValueError THEN ValueError
                 ELSE SubSeq(pv \o [i \in 1..n |-> 0], 1, n)

\* ------------------------------------------------------------------------
\* Python values: dicts, tuples
\* ------------------------------------------------------------------------
\* A dict is a function; d.get(k, default).
Get(d, k, default) == IF k \in DOMAIN d THEN d[k] ELSE default

\* d[k] = v on a dict.
Put(d, k, v) == [x \in DOMAIN d \cup {k} |-> IF x = k THEN v ELSE d[x]]

EmptyDict == [x \in {} |-> None]

\* Python's order on tuples of integers: a > b.
TupleGT(a, b) ==
    \/ \E i \in 1..Min(Len(a), Len(b)) :
           /\ a[i] > b[i]
           /\ \A j \in 1..(i - 1) : a[j] = b[j]
    \/ /\ Len(a) > Len(b)
       /\ \A j \in 1..Len(b) : a[j] = b[j]

\* Python's order on keys (parsed_version, build_number): k1 > k2.
KeyGT(k1, k2) ==
    \/ TupleGT(k1[1], k2[1])
    \/ k1[1] = k2[1] /\ k1[2] > k2[2]

\* The sorted list of a set of integers: sorted(s).
RECURSIVE sorted(_)
sorted(s) ==
    IF s = {} THEN <<>>
    ELSE LET m == CHOOSE x \in s : \A y \in s : x <= y
         IN  <<m>> \o sorted(s \ {m})

Range(f) == {f[x] : x \in DOMAIN f}

\* ------------------------------------------------------------------------
\* sync_conda_forge.extract_latest_from_shard
\* ------------------------------------------------------------------------
\* A shard is [packages, conda]: two ordered dicts, each a sequence of
\* <<filename, info>> pairs with distinct filenames.  An info is a record
\* whose field keys is the set of keys the dict holds.
Keys(od) == {od[i][1] : i \in 1..Len(od)}

\* packages.update(shard.get("packages.conda", {})): a key already there
\* keeps its place and takes the new value, a new key is appended.
RECURSIVE update(_, _)
update(packages, other) ==
    IF Len(other) = 0 THEN packages
    ELSE LET kv == Head(other)
             merged ==
                 IF kv[1] \in Keys(packages)
                 THEN [i \in 1..Len(packages) |->
                          IF packages[i][1] = kv[1] THEN kv ELSE packages[i]]
                 ELSE Append(packages, kv)
         IN  update(merged, Tail(other))

\* info.get(k, default) on an info record.
InfoGet(info, k, default) == IF k \in info.keys THEN info[k] ELSE default

\* The loop of lines 122-128 from position i on, carrying latest (a set
\* holding at most one info; empty: None) and latest_key.  The result is
\* [raised, latest]: raised when parse_version raised a ValueError.
RECURSIVE LatestLoop(_, _, _, _)
LatestLoop(values, i, latest, latest_key) ==
    IF i > Len(values) THEN [raised |-> FALSE, latest |-> latest]
    ELSE LET info == values[i]
             pv == parse_version(InfoGet(info, "version", <<>>))
             key == <<pv, InfoGet(info, "build_number", 0)>>
         IN  IF pv = ValueError THEN [raised |-> TRUE, latest |-> {}]
             ELSE IF KeyGT(key, latest_key)
                  THEN LatestLoop(values, i + 1, {info}, key)
                  ELSE LatestLoop(values, i + 1, latest, latest_key)

\* The result is [raised, info]: info is a set, empty for None, else
\* holding the one extracted entry.
extract_latest_from_shard(shard) ==
    LET packages == update(shard.packages, shard.conda)
        values == [i \in 1..Len(packages) |-> packages[i][2]]
        loop == LatestLoop(values, 1, {}, <<<<>>, 0>>)
    IN  IF Len(packages) = 0 THEN [raised |-> FALSE, info |-> {}]
        ELSE [raised |-> loop.raised,
              info |-> {[version |-> InfoGet(l, "version", <<>>),
                         build_number |-> InfoGet(l, "build_number", 0),
                         build |-> InfoGet(l, "build", <<>>),
                         depends |-> InfoGet(l, "depends", <<>>)] :
                            l \in {x \in loop.latest : x.keys # {}}}]

\* ------------------------------------------------------------------------
\* The upstream channel and the bytes it serves
\* ------------------------------------------------------------------------
Names == 1..MaxNames

Bytes == 1..MaxBytes

\* hashlib.sha256(data).digest(): injective on the payloads of the model.
sha256(data) == (3 * data) % 7

Hashes == {sha256(b) : b \in Bytes}

\* shard_hash.hex()
hex(shard_hash) == [hex |-> shard_hash]

\* A complete package entry of a shard.
Info(version, build_number) ==
    [keys |-> {"version", "build_number", "build", "depends"},
     version |-> version, build_number |-> build_number,
     build |-> <<"h">>, depends |-> <<>>]

\* msgpack.unpackb(zstandard.decompress(data)) of a shard payload:
\* [ok, shard]; ok is false when decompressing or unpacking raises.
\*   1: two builds, 1.2 (build 0) and 1.10 (build 1)
\*   2: no package entry at all
\*   3: one file name in both sub-mappings
\*   4: bytes that do not decompress
\*   others: a single build
DecodeShard(data) ==
    CASE data = 1 ->
           [ok |-> TRUE,
            shard |-> [packages |-> << <<"f1", Info(<<"1", ".", "2">>, 0)>>,
                                       <<"f2", Info(<<"1", ".", "1", "0">>, 1)>> >>,
                       conda |-> <<>>]]
      [] data = 2 ->
           [ok |-> TRUE, shard |-> [packages |-> <<>>, conda |-> <<>>]]
      [] data = 3 ->
           [ok |-> TRUE,
            shard |-> [packages |-> << <<"f1", Info(<<"2", ".", "0">>, 0)>> >>,
                       conda |-> << <<"f1", Info(<<"2", ".", "0">>, 3)>> >>]]
      [] data = 4 ->
           [ok |-> FALSE, shard |-> [packages |-> <<>>, conda |-> <<>>]]
      [] OTHER ->
           [ok |-> TRUE,
            shard |-> [packages |-> << <<"f1", Info(<<"3">>, data)>> >>,
                       conda |-> <<>>]]

\* The shard maps an index can hold: name -> digest, for some of the names.
ShardMaps == UNION {[S -> Hashes] : S \in SUBSET Names}

\* The bytes of a shards index: the compressed, packed mapping, or bytes
\* that do not decode.
IndexBytes(shards) == [ok |-> TRUE, shards |-> shards]

Garbage == [ok |-> FALSE, shards |-> EmptyDict]

\* The validator the server sends with an index body.
ETagOf(shards) == [etag |-> shards]

\* ------------------------------------------------------------------------
\* State
\* ------------------------------------------------------------------------
VARIABLES
    \* the upstream channel
    upShards,       \* the shard map of the index the server holds now
    nChanges,       \* upstream changes so far
    \* local durable state; a file is a set: empty when it does not exist
    indexFile,      \* SHARDS_INDEX_CACHE
    etagFile,       \* INDEX_ETAG_CACHE
    shardFiles,     \* SHARDS_DIR: digest -> bytes, for the files that exist
    depsFile,       \* DEPS_CACHE: the upstream snapshot
    hashesFile,     \* TRACKED_HASHES_CACHE
    \* the running sync process (main)
    pc,
    runs,
    args,           \* [packages, check, list_changed, force]
    old_deps,
    old_hashes,
    shards_map,
    index_updated,
    new_deps,
    new_hashes,
    missing,
    changed,
    unchanged,
    pos,            \* position of the download loop in changed
    \* history
    fetched,        \* this run's download_shard calls, in order
    start,          \* the durable state when the run started
    prev,           \* the run before this one
    served,         \* the server's shard map when this run fetched the index
    lastNet,        \* digest -> the last download_shard call used the network
    verifiedDl,     \* digest -> downloads that passed verification
    \* the version functions, applied to one input
    version,
    upper_bound,
    parsed_sync,    \* what sync_conda_forge.parse_version returned
    parsed_graph,   \* what dep_graph.parse_version returned
    bound,          \* what dep_graph.version_bound returned
    shard_in,       \* a decoded shard given to extract_latest_from_shard
    extracted,      \* what it returned: a set, empty before the call
    \* the dependency graph and the rebuild analysis
    gpc,            \* "render", "input", "built", "checked" or "answered"
    deps_json,      \* the JSON of gen_deps.py: name -> package record
    packages_ds,    \* the packages dataset: a sequence of rows
    edges_ds,       \* the edges dataset: a sequence of rows
    upstream,       \* the snapshot given to check_rebuilds
    rebuilds,       \* what check_rebuilds returned
    all_pkgs,       \* the renderer outputs gen_deps.py collected
    query,          \* the graph query that was called
    answer          \* what the query returned

syncVars ==
    <<upShards, nChanges, indexFile, etagFile, shardFiles, depsFile, hashesFile,
      pc, runs, args, old_deps, old_hashes, shards_map, index_updated, new_deps,
      new_hashes, missing, changed, unchanged, pos, fetched, start, prev,
      served, lastNet, verifiedDl>>

diskVars == <<indexFile, etagFile, shardFiles, depsFile, hashesFile>>

localVars ==
    <<old_deps, old_hashes, shards_map, index_updated, new_deps, new_hashes,
      missing, changed, unchanged, pos>>

verVars == <<version, upper_bound, parsed_sync, parsed_graph, bound,
             shard_in, extracted>>

graphVars == <<gpc, deps_json, packages_ds, edges_ds, upstream, rebuilds,
               all_pkgs, query, answer>>

vars == <<syncVars, verVars, graphVars>>

NoArgs == [packages |-> {}, check |-> FALSE, list_changed |-> FALSE, force |-> FALSE]

NoStart == [depsFile |-> {}, hashesFile |-> {}, shardFiles |-> EmptyDict]

NoPrev == [saved |-> FALSE, packages |-> {}, shards |-> EmptyDict, served |-> EmptyDict]

\* Positions at which main has returned or raised, before the process exits.
Done == {"nothing", "listed", "checked", "saved", "crashed"}

SyncInit ==
    /\ upShards \in ShardMaps
    /\ nChanges = 0
    /\ indexFile = {} /\ etagFile = {} /\ shardFiles = EmptyDict
    /\ depsFile = {} /\ hashesFile = {}
    /\ pc = "idle" /\ runs = 0 /\ args = NoArgs
    /\ old_deps = EmptyDict /\ old_hashes = EmptyDict /\ shards_map = EmptyDict
    /\ index_updated = FALSE
    /\ new_deps = EmptyDict /\ new_hashes = EmptyDict
    /\ missing = <<>> /\ changed = <<>> /\ unchanged = 0 /\ pos = 1
    /\ fetched = <<>> /\ start = NoStart /\ prev = NoPrev
    /\ served = EmptyDict
    /\ lastNet = [h \in Hashes |-> FALSE]
    /\ verifiedDl = [h \in Hashes |-> 0]

\* ------------------------------------------------------------------------
\* sync_conda_forge.download_shards_index
\* ------------------------------------------------------------------------
\* What the server may answer to a request carrying if_none_match (a set:
\* empty when the header is not sent): a failure status, 304 when the
\* validator is the current one, else 200 with the current body (or bytes
\* damaged in transit), with or without an ETag header.
IndexResponses(if_none_match) ==
    {[status |-> 500, etag |-> {}, data |-> Garbage]}
    \cup
    (IF if_none_match = {ETagOf(upShards)}
     THEN {[status |-> 304, etag |-> {}, data |-> Garbage]}
     ELSE {[status |-> 200, etag |-> e, data |-> d] :
              e \in {{}, {ETagOf(upShards)}},
              d \in {IndexBytes(upShards), Garbage}})

\* headers["If-None-Match"], lines 38-40
IfNoneMatch(force) ==
    IF ~force /\ etagFile # {} /\ indexFile # {} THEN etagFile ELSE {}

\* msgpack.unpackb(zstandard.decompress(data)) of index bytes.
DecodeIndex(data) == [ok |-> data.ok, shards |-> data.shards]

\* The call's effect and result for a response:
\* [raised, shards, updated, indexFile, etagFile].
download_shards_index(resp) ==
    IF resp.status = 200
    THEN LET decoded == DecodeIndex(resp.data)
         IN  [raised |-> ~decoded.ok,
              shards |-> decoded.shards,
              updated |-> TRUE,
              indexFile |-> {resp.data},
              etagFile |-> IF resp.etag # {} THEN resp.etag ELSE etagFile]
    ELSE IF resp.status = 304
    THEN LET decoded == DecodeIndex(CHOOSE d \in indexFile : TRUE)
         IN  [raised |-> ~decoded.ok,
              shards |-> decoded.shards,
              updated |-> FALSE,
              indexFile |-> indexFile,
              etagFile |-> etagFile]
    ELSE [raised |-> TRUE, shards |-> EmptyDict, updated |-> FALSE,
          indexFile |-> indexFile, etagFile |-> etagFile]

\* ------------------------------------------------------------------------
\* sync_conda_forge.download_shard
\* ------------------------------------------------------------------------
\* What a shard download may give: a transport failure, or any bytes (the
\* shard's own, or others).
ShardResponses == {[ok |-> FALSE, data |-> 0]} \cup {[ok |-> TRUE, data |-> b] : b \in Bytes}

\* A download_shard that writes the bytes before it compares the digest.
download_shard_unverified(shard_hash, resp, files) ==
    IF shard_hash \in DOMAIN files
    THEN LET decoded == DecodeShard(files[shard_hash])
         IN  [result |-> IF decoded.ok THEN "ok" ELSE "decode",
              shard |-> decoded.shard, files |-> files,
              net |-> FALSE, verified |-> FALSE]
    ELSE IF ~resp.ok
    THEN [result |-> "transport", shard |-> DecodeShard(0).shard, files |-> files,
          net |-> TRUE, verified |-> FALSE]
    ELSE IF sha256(resp.data) # shard_hash
    THEN [result |-> "integrity", shard |-> DecodeShard(0).shard,
          files |-> Put(files, shard_hash, resp.data),
          net |-> TRUE, verified |-> TRUE]
    ELSE LET decoded == DecodeShard(resp.data)
         IN  [result |-> IF decoded.ok THEN "ok" ELSE "decode",
              shard |-> decoded.shard,
              files |-> Put(files, shard_hash, resp.data),
              net |-> TRUE, verified |-> TRUE]

\* A download_shard that never looks at the shard cache before it downloads.
download_shard_uncached(shard_hash, resp, files) ==
    IF ~resp.ok
    THEN [result |-> "transport", shard |-> DecodeShard(0).shard, files |-> files,
          net |-> TRUE, verified |-> FALSE]
    ELSE IF sha256(resp.data) # shard_hash
    THEN [result |-> "integrity", shard |-> DecodeShard(0).shard, files |-> files,
          net |-> TRUE, verified |-> TRUE]
    ELSE LET decoded == DecodeShard(resp.data)
         IN  [result |-> IF decoded.ok THEN "ok" ELSE "decode",
              shard |-> decoded.shard,
              files |-> Put(files, shard_hash, resp.data),
              net |-> TRUE, verified |-> TRUE]

\* The call's effect and result for a response:
\* [result, shard, files, net, verified]; result is "ok", or the failure
\* raised: "transport", "integrity" (the hash mismatch) or "decode".
download_shard(shard_hash, resp, files) ==
    IF shard_hash \in DOMAIN files
    THEN LET decoded == DecodeShard(files[shard_hash])
         IN  [result |-> IF decoded.ok THEN "ok" ELSE "decode",
              shard |-> decoded.shard, files |-> files,
              net |-> FALSE, verified |-> FALSE]
    ELSE IF ~resp.ok
    THEN [result |-> "transport", shard |-> DecodeShard(0).shard, files |-> files,
          net |-> TRUE, verified |-> FALSE]
    ELSE IF sha256(resp.data) # shard_hash
    THEN [result |-> "integrity", shard |-> DecodeShard(0).shard, files |-> files,
          net |-> TRUE, verified |-> TRUE]
    ELSE LET decoded == DecodeShard(resp.data)
         IN  [result |-> IF decoded.ok THEN "ok" ELSE "decode",
              shard |-> decoded.shard,
              files |-> Put(files, shard_hash, resp.data),
              net |-> TRUE, verified |-> TRUE]

\* ------------------------------------------------------------------------
\* sync_conda_forge.main
\* ------------------------------------------------------------------------
\* A line 222 that compares the hashes only.
hash_only_unchanged(name, shards, hashes, deps) ==
    /\ name \in DOMAIN hashes
    /\ hashes[name] = hex(shards[name])

\* Line 222: the shard of name needs no fetch.
hash_unchanged(name, shards, hashes, deps) ==
    /\ name \in DOMAIN hashes
    /\ hashes[name] = hex(shards[name])
    /\ name \in DOMAIN deps

\* A classification that records the hashes of the changed names only.
diff_hashes_of_changed(package_names, shards, hashes, deps) ==
    LET found == package_names \cap DOMAIN shards
        same == {n \in found : (/\ n \in DOMAIN hashes
                                /\ hashes[n] = hex(shards[n])
                                /\ n \in DOMAIN deps)}
    IN  [new_hashes |-> [n \in found \ same |-> hex(shards[n])],
         missing |-> sorted(package_names \ DOMAIN shards),
         changed |-> sorted(found \ same),
         unchanged |-> Cardinality(same)]

\* A classification that stops at the first name the index does not list.
diff_stops_at_missing(package_names, shards, hashes, deps) ==
    LET absent == package_names \ DOMAIN shards
        seen == IF absent = {} THEN package_names
                ELSE {n \in package_names : \A m \in absent : n <= m}
        found == seen \cap DOMAIN shards
        same == {n \in found : (/\ n \in DOMAIN hashes
                                /\ hashes[n] = hex(shards[n])
                                /\ n \in DOMAIN deps)}
    IN  [new_hashes |-> [n \in found |-> hex(shards[n])],
         missing |-> sorted(seen \ DOMAIN shards),
         changed |-> sorted(found \ same),
         unchanged |-> Cardinality(same)]

\* Lines 207-226: [new_hashes, missing, changed, unchanged].
diff(package_names, shards, hashes, deps) ==
    LET found == package_names \cap DOMAIN shards
        same == {n \in found : hash_unchanged(n, shards, hashes, deps)}
    IN  [new_hashes |-> [n \in found |-> hex(shards[n])],
         missing |-> sorted(package_names \ DOMAIN shards),
         changed |-> sorted(found \ same),
         unchanged |-> Cardinality(same)]

\* A loop that ends at the first turn that raised.
stop_after_failure(position, result, total) ==
    IF result = "ok" THEN position + 1 ELSE total + 1

\* Lines 240-249: the loop goes on to the next name whether the turn
\* merged an entry or logged an exception.
after_turn(position, result, total) == position + 1

\* A main that saves whatever --check says.
never_check_only(a) == FALSE

\* Line 262: --check returns before anything is saved.
check_only(a) == a.check

\* A main that downloads whatever --list-changed says.
never_list_only(a) == FALSE

\* Line 229: --list-changed prints the classification and returns.
list_only(a) == a.list_changed

\* Lines 230-236: what --list-changed prints: the two counts, each changed
\* name with its old and new hash, and the first ten of the names not found.
list_report(names, old, new, same, absent) ==
    [counts |-> <<Len(names), same>>,
     changed |-> [i \in 1..Len(names) |->
                    <<names[i], Get(old, names[i], None), new[names[i]]>>],
     missing |-> SubSeq(absent, 1, Min(10, Len(absent)))]

\* Lines 169-198: parse the arguments, pick the tracked names, load the
\* snapshot and the tracked hashes.
StartRun ==
    /\ pc = "idle"
    /\ runs < MaxRuns
    /\ runs' = runs + 1
    /\ \E package_names \in SUBSET Names, check \in BOOLEAN,
          list_changed \in BOOLEAN, force \in BOOLEAN :
          /\ args' = [packages |-> package_names, check |-> check,
                      list_changed |-> list_changed, force |-> force]
          /\ pc' = IF package_names = {} THEN "nothing" ELSE "index"
    /\ old_deps' = IF depsFile = {} THEN EmptyDict ELSE CHOOSE d \in depsFile : TRUE
    /\ old_hashes' = IF hashesFile = {} THEN EmptyDict ELSE CHOOSE d \in hashesFile : TRUE
    /\ shards_map' = EmptyDict /\ index_updated' = FALSE
    /\ new_deps' = EmptyDict /\ new_hashes' = EmptyDict
    /\ missing' = <<>> /\ changed' = <<>> /\ unchanged' = 0 /\ pos' = 1
    /\ fetched' = <<>>
    /\ start' = [depsFile |-> depsFile, hashesFile |-> hashesFile,
                 shardFiles |-> shardFiles]
    /\ served' = EmptyDict
    /\ UNCHANGED <<upShards, nChanges, diskVars, prev, lastNet, verifiedDl>>

\* Line 201: fetch the index, the answer being one of responses; a failure
\* it raises ends the process.
FetchIndexFrom(responses) ==
    /\ pc = "index"
    /\ \E resp \in responses :
          LET r == download_shards_index(resp)
          IN  /\ indexFile' = r.indexFile
              /\ etagFile' = r.etagFile
              /\ shards_map' = r.shards
              /\ index_updated' = r.updated
              /\ pc' = IF r.raised THEN "crashed" ELSE "diff"
    /\ served' = upShards
    /\ UNCHANGED <<upShards, nChanges, shardFiles, depsFile, hashesFile, runs, args,
                   old_deps, old_hashes, new_deps, new_hashes, missing, changed,
                   unchanged, pos, fetched, start, prev, lastNet, verifiedDl>>

\* The call of line 201 with any answer the server may give.
FetchIndex == FetchIndexFrom(IndexResponses(IfNoneMatch(args.force)))

\* Lines 205-237: classify the tracked names; with --list-changed print
\* the classification and return.
Diff ==
    /\ pc = "diff"
    /\ LET d == diff(args.packages, shards_map, old_hashes, old_deps)
       IN  /\ new_deps' = old_deps
           /\ new_hashes' = d.new_hashes
           /\ missing' = d.missing
           /\ changed' = d.changed
           /\ unchanged' = d.unchanged
    /\ pos' = 1
    /\ pc' = IF list_only(args) THEN "listed" ELSE "fetch"
    /\ UNCHANGED <<upShards, nChanges, diskVars, runs, args, old_deps, old_hashes,
                   shards_map, index_updated, fetched, start, prev, served,
                   lastNet, verifiedDl>>

\* Lines 240-249, one turn of the loop: fetch the shard of changed[pos] and
\* merge its representative entry; any exception is logged and skipped.
\* The answer to a download of digest h is one of responses[h].
FetchShardFrom(responses) ==
    /\ pc = "fetch"
    /\ pos <= Len(changed)
    /\ LET name == changed[pos]
           shard_hash == shards_map[name]
       IN  \E resp \in responses[shard_hash] :
              LET r == download_shard(shard_hash, resp, shardFiles)
                  e == IF r.result = "ok"
                       THEN extract_latest_from_shard(r.shard)
                       ELSE [raised |-> FALSE, info |-> {}]
                  merged == r.result = "ok" /\ ~e.raised /\ e.info # {}
              IN  /\ shardFiles' = r.files
                  /\ new_deps' = IF merged
                                 THEN Put(new_deps, name, CHOOSE i \in e.info : TRUE)
                                 ELSE new_deps
                  /\ fetched' = Append(fetched,
                         [name |-> name, hash |-> shard_hash,
                          before |-> shardFiles,
                          cached |-> shard_hash \in DOMAIN shardFiles,
                          net |-> r.net, verified |-> r.verified,
                          received |-> IF r.net /\ resp.ok THEN {resp.data} ELSE {},
                          prevNet |-> lastNet[shard_hash],
                          result |-> IF r.result = "ok" /\ e.raised
                                     THEN "parse" ELSE r.result,
                          shard |-> r.shard,
                          info |-> IF merged THEN e.info ELSE {}])
                  /\ lastNet' = [lastNet EXCEPT ![shard_hash] = r.net]
                  /\ verifiedDl' =
                         [verifiedDl EXCEPT ![shard_hash] =
                             IF r.net /\ r.result \in {"ok", "decode"}
                             THEN Min(@ + 1, 2) ELSE @]
                  /\ pos' = after_turn(pos, r.result, Len(changed))
    /\ UNCHANGED <<upShards, nChanges, indexFile, etagFile, depsFile, hashesFile,
                   pc, runs, args, old_deps, old_hashes, shards_map, index_updated,
                   new_hashes, missing, changed, unchanged, start, prev, served>>

\* A turn of the loop with any answer a download may get.
FetchShard == FetchShardFrom([h \in Hashes |-> ShardResponses])

\* Lines 251-272: after the loop; with --check report and return, else
\* write the snapshot.
Finish ==
    /\ pc = "fetch"
    /\ pos > Len(changed)
    /\ IF check_only(args)
       THEN pc' = "checked" /\ depsFile' = depsFile
       ELSE pc' = "save_hashes" /\ depsFile' = {new_deps}
    /\ UNCHANGED <<upShards, nChanges, indexFile, etagFile, shardFiles, hashesFile,
                   runs, args, localVars, fetched, start, prev, served, lastNet,
                   verifiedDl>>

\* Line 273: write the tracked hashes.
SaveHashes ==
    /\ pc = "save_hashes"
    /\ hashesFile' = {new_hashes}
    /\ pc' = "saved"
    /\ UNCHANGED <<upShards, nChanges, indexFile, etagFile, shardFiles, depsFile,
                   runs, args, localVars, fetched, start, prev, served, lastNet,
                   verifiedDl>>

\* The memory of the process is gone once it has exited.
Forget ==
    /\ args' = NoArgs
    /\ old_deps' = EmptyDict /\ old_hashes' = EmptyDict /\ shards_map' = EmptyDict
    /\ index_updated' = FALSE
    /\ new_deps' = EmptyDict /\ new_hashes' = EmptyDict
    /\ missing' = <<>> /\ changed' = <<>> /\ unchanged' = 0 /\ pos' = 1
    /\ fetched' = <<>> /\ start' = NoStart /\ served' = EmptyDict

\* main has returned or raised: the process exits.
Exit ==
    /\ pc \in Done
    /\ pc' = "idle"
    /\ prev' = IF pc = "saved"
               THEN [saved |-> TRUE, packages |-> args.packages, shards |-> shards_map,
                     served |-> served]
               ELSE NoPrev
    /\ Forget
    /\ UNCHANGED <<upShards, nChanges, diskVars, runs, lastNet, verifiedDl>>

\* The process is killed between two steps.
Interrupt ==
    /\ pc \notin Done \cup {"idle"}
    /\ pc' = "idle"
    /\ prev' = NoPrev
    /\ Forget
    /\ UNCHANGED <<upShards, nChanges, diskVars, runs, lastNet, verifiedDl>>

\* The channel publishes a new index: one name gets another shard, appears
\* or disappears.  A process reads the server's index in FetchIndex only,
\* so a change during a run is a change before or after it.
UpstreamChange ==
    /\ pc = "idle"
    /\ nChanges < MaxChanges
    /\ nChanges' = nChanges + 1
    /\ \E m \in ShardMaps :
          /\ m # upShards
          /\ \E n \in Names : \A k \in Names \ {n} :
                /\ (k \in DOMAIN m) = (k \in DOMAIN upShards)
                /\ k \in DOMAIN m => m[k] = upShards[k]
          /\ upShards' = m
    /\ UNCHANGED <<diskVars, pc, runs, args, localVars, fetched, start, prev,
                   served, lastNet, verifiedDl>>

\* A function that has not been applied yet.
NotRun == <<-2>>

ExtractIdle == shard_in = [packages |-> <<>>, conda |-> <<>>] /\ extracted = {}

VerIdle ==
    /\ version = <<>> /\ upper_bound = <<>>
    /\ parsed_sync = NotRun /\ parsed_graph = NotRun /\ bound = NotRun
    /\ ExtractIdle

NoQuery == [kind |-> "none", name |-> 0]

QueryIdle == all_pkgs = <<>> /\ query = NoQuery /\ answer = <<>>

GraphIdle ==
    /\ gpc = "input" /\ deps_json = EmptyDict
    /\ packages_ds = <<>> /\ edges_ds = <<>>
    /\ upstream = EmptyDict /\ rebuilds = <<>>
    /\ QueryIdle

Init == SyncInit /\ VerIdle /\ GraphIdle

Next ==
    \/ StartRun /\ UNCHANGED <<verVars, graphVars>>
    \/ FetchIndex /\ UNCHANGED <<verVars, graphVars>>
    \/ Diff /\ UNCHANGED <<verVars, graphVars>>
    \/ FetchShard /\ UNCHANGED <<verVars, graphVars>>
    \/ Finish /\ UNCHANGED <<verVars, graphVars>>
    \/ SaveHashes /\ UNCHANGED <<verVars, graphVars>>
    \/ Exit /\ UNCHANGED <<verVars, graphVars>>
    \/ Interrupt /\ UNCHANGED <<verVars, graphVars>>
    \/ UpstreamChange /\ UNCHANGED <<verVars, graphVars>>

Spec == Init /\ [][Next]_vars

\* ------------------------------------------------------------------------
\* Repeated persisting runs over the tracked names
\* ------------------------------------------------------------------------
\* The names a run without package arguments tracks (lines 183-185): the
\* same set in every run.
Tracked == Names

\* The first MaxRuns runs are disturbed: the upstream may change around
\* them and any shard download may fail.  From the next run on the upstream
\* is fixed and every shard download gets the right bytes.
Settled == runs > MaxRuns

\* Lines 169-198 of a run without arguments; the run counter stops at the
\* first settled run.
SyncAgain ==
    /\ pc = "idle"
    /\ runs' = Min(runs + 1, MaxRuns + 1)
    /\ args' = [packages |-> Tracked, check |-> FALSE, list_changed |-> FALSE,
                force |-> FALSE]
    /\ pc' = "index"
    /\ old_deps' = IF depsFile = {} THEN EmptyDict ELSE CHOOSE d \in depsFile : TRUE
    /\ old_hashes' = IF hashesFile = {} THEN EmptyDict ELSE CHOOSE d \in hashesFile : TRUE
    /\ shards_map' = EmptyDict /\ index_updated' = FALSE
    /\ new_deps' = EmptyDict /\ new_hashes' = EmptyDict
    /\ missing' = <<>> /\ changed' = <<>> /\ unchanged' = 0 /\ pos' = 1
    /\ fetched' = <<>>
    /\ start' = [depsFile |-> depsFile, hashesFile |-> hashesFile,
                 shardFiles |-> shardFiles]
    /\ served' = EmptyDict
    /\ UNCHANGED <<upShards, nChanges, diskVars, prev, lastNet, verifiedDl>>

\* The answers of a server that works: no failure status, and a 200 body
\* that is the current index.
GoodIndexResponses(if_none_match) ==
    {r \in IndexResponses(if_none_match) :
        /\ r.status # 500
        /\ r.status = 200 => r.data = IndexBytes(upShards)}

\* The answers of downloads that succeed with the right bytes.
GoodShardResponses ==
    [h \in Hashes |-> {r \in ShardResponses : r.ok /\ sha256(r.data) = h}]

\* The index is fetched from a server that works, in every run.
GoodFetchIndex == FetchIndexFrom(GoodIndexResponses(IfNoneMatch(args.force)))

SettlingFetchShard ==
    IF Settled THEN FetchShardFrom(GoodShardResponses) ELSE FetchShard

\* A step of the sync process other than a turn of the download loop.
SyncStep ==
    /\ \/ SyncAgain
       \/ GoodFetchIndex
       \/ Diff
       \/ Finish
       \/ SaveHashes
       \/ Exit
    /\ UNCHANGED <<verVars, graphVars>>

\* A turn of the download loop, and the states in which one is possible: a
\* download always gets some answer.
DownloadStep == SettlingFetchShard /\ UNCHANGED <<verVars, graphVars>>

DownloadEnabled == pc = "fetch" /\ pos <= Len(changed)

ConvergeNext ==
    \/ SyncAgain /\ UNCHANGED <<verVars, graphVars>>
    \/ GoodFetchIndex /\ UNCHANGED <<verVars, graphVars>>
    \/ Diff /\ UNCHANGED <<verVars, graphVars>>
    \/ SettlingFetchShard /\ UNCHANGED <<verVars, graphVars>>
    \/ Finish /\ UNCHANGED <<verVars, graphVars>>
    \/ SaveHashes /\ UNCHANGED <<verVars, graphVars>>
    \/ Exit /\ UNCHANGED <<verVars, graphVars>>
    \/ ~Settled /\ UpstreamChange /\ UNCHANGED <<verVars, graphVars>>

\* The process is scheduled and runs are repeated: a step of the process
\* that stays possible is taken.  For the download step this is weak
\* fairness written out, with DownloadEnabled for ENABLED <<DownloadStep>>_vars.
Fairness ==
    /\ WF_vars(SyncStep)
    /\ []<>(~DownloadEnabled) \/ []<><<DownloadStep>>_vars

SpecConverge == Init /\ [][ConvergeNext]_vars /\ Fairness

\* ------------------------------------------------------------------------
\* Properties of the sync run
\* ------------------------------------------------------------------------
Elems(seq) == {seq[i] : i \in 1..Len(seq)}

NoDuplicates(seq) == \A i, j \in 1..Len(seq) : i # j => seq[i] # seq[j]

\* Positions after the classification of lines 205-226.
Classified == {"fetch", "listed", "checked", "save_hashes", "saved"}

\* Positions after the download loop of lines 240-249.
Looped == {"checked", "save_hashes", "saved"}

\* The tracked names the index lists.
Found == args.packages \cap DOMAIN shards_map

\* The snapshot on disk, as a dict.
Snapshot(file) == IF file = {} THEN EmptyDict ELSE CHOOSE d \in file : TRUE

\* This run directly follows a completed persisting run over the same
\* tracked names.
FollowsSavedRun == prev.saved /\ prev.packages = args.packages

FilesAfter(i) == IF i < Len(fetched) THEN fetched[i + 1].before ELSE shardFiles

\* C2: every file of the shard cache holds bytes whose SHA-256 digest is the
\* hash it is named by; a download whose digest differs from the expected
\* hash raises the integrity failure and leaves the shard cache unchanged.
C2_VerifyBeforePersist ==
    /\ \A h \in DOMAIN shardFiles : sha256(shardFiles[h]) = h
    /\ \A i \in 1..Len(fetched) :
          (\E d \in fetched[i].received : sha256(d) # fetched[i].hash)
              => /\ fetched[i].result = "integrity"
                 /\ FilesAfter(i) = fetched[i].before

C2_Witness ==
    /\ DOMAIN shardFiles # {}
    /\ \E i \in 1..Len(fetched) :
          /\ fetched[i].result = "integrity"
          /\ \E d \in fetched[i].received : sha256(d) # fetched[i].hash

\* C3 as stated: two successive fetchShard calls with the same digest make at
\* most one network download in total.
C3_ContentAddressing_AsStated ==
    \A i \in 1..Len(fetched) : ~(fetched[i].net /\ fetched[i].prevNet)

\* C3 amended: for every digest at most one download passes verification and
\* is persisted (a call that follows a failed download downloads again), and
\* whenever a local file addressed by the digest exists, fetchShard decodes
\* that file with no network request and no hash verification.
C3_ContentAddressing ==
    /\ \A h \in Hashes : verifiedDl[h] <= 1
    /\ \A i \in 1..Len(fetched) :
          LET o == fetched[i]
          IN  (o.hash \in DOMAIN o.before)
                 => /\ ~o.net /\ ~o.verified
                    /\ FilesAfter(i) = o.before
                    /\ LET decoded == DecodeShard(o.before[o.hash])
                       IN  /\ (o.result # "decode") = decoded.ok
                           /\ o.shard = decoded.shard

C3_Witness ==
    \E i \in 1..Len(fetched) :
        /\ fetched[i].hash \in DOMAIN fetched[i].before
        /\ fetched[i].prevNet
        /\ fetched[i].result = "ok"

\* The classification the code makes, name by name.
HashRecorded(n) == n \in DOMAIN old_hashes /\ old_hashes[n] = hex(shards_map[n])

C5_FailureIsolation ==
    pc \in {"save_hashes", "saved"}
        => /\ {fetched[i].name : i \in 1..Len(fetched)} = Elems(changed)
           /\ \A i \in 1..Len(fetched) :
                 LET o == fetched[i]
                 IN  o.result = "ok" =>
                        /\ o.hash \in DOMAIN shardFiles
                        /\ \A rep \in extract_latest_from_shard(
                                         DecodeShard(shardFiles[o.hash]).shard).info :
                              /\ o.name \in DOMAIN Snapshot(depsFile)
                              /\ Snapshot(depsFile)[o.name] = rep

C5_Witness ==
    /\ pc = "saved"
    /\ \E i, j \in 1..Len(fetched) :
          /\ i < j
          /\ fetched[i].result \in {"transport", "integrity"}
          /\ fetched[j].result = "ok"
          /\ fetched[j].name \in DOMAIN Snapshot(depsFile)

\* C6: missing, changed and unchanged are disjoint and cover the tracked
\* names (unchanged is a count in the code); a tracked name the index does
\* not list is in missing and not in changed, and the run still classifies
\* and fetches every other tracked name.
C6_MissingRobust ==
    /\ pc \in Classified =>
          /\ Elems(missing) \cap Elems(changed) = {}
          /\ NoDuplicates(missing) /\ NoDuplicates(changed)
          /\ Elems(missing) \cup Elems(changed) \subseteq args.packages
          /\ Len(missing) + Len(changed) + unchanged = Cardinality(args.packages)
          /\ \A n \in args.packages :
                IF n \in DOMAIN shards_map
                THEN n \notin Elems(missing)
                ELSE n \in Elems(missing) /\ n \notin Elems(changed)
          /\ unchanged <= Cardinality(Found \ Elems(changed))
    /\ pc \in Looped =>
          {fetched[i].name : i \in 1..Len(fetched)} = Elems(changed)

C6_Witness ==
    /\ pc = "saved"
    /\ missing # <<>>
    /\ \E i \in 1..Len(fetched) :
          /\ fetched[i].name > missing[1]
          /\ fetched[i].result = "ok"

\* C10: a run with --check leaves the persisted snapshot and the persisted
\* tracked hashes as they were when it started.
C10_CheckOnlyFrame ==
    args.check => depsFile = start.depsFile /\ hashesFile = start.hashesFile

C10_Witness ==
    /\ pc = "checked"
    /\ new_deps # old_deps
    /\ old_deps # EmptyDict
    /\ \E i \in 1..Len(fetched) : fetched[i].net /\ fetched[i].result = "ok"

\* C11: a run with --list-changed makes no call of download_shard and leaves
\* the shard cache, the persisted snapshot and the persisted tracked hashes
\* as they were when it started; when it returns, what it printed is the
\* classification of the tracked names: the changed names, the count of the
\* unchanged ones and the names the index does not list.
C11_ListOnlyFrame ==
    args.list_changed =>
        /\ fetched = <<>>
        /\ shardFiles = start.shardFiles
        /\ depsFile = start.depsFile
        /\ hashesFile = start.hashesFile
        /\ pc \notin {"fetch", "checked", "save_hashes", "saved"}
        /\ pc = "listed" =>
              LET r == list_report(changed, old_hashes, new_hashes, unchanged, missing)
              IN  /\ {r.changed[i][1] : i \in 1..Len(r.changed)} =
                         {n \in Found : ~(HashRecorded(n) /\ n \in DOMAIN old_deps)}
                  /\ r.counts[1] = Len(r.changed)
                  /\ r.counts[2] =
                         Cardinality({n \in Found : HashRecorded(n) /\ n \in DOMAIN old_deps})
                  /\ Elems(r.missing) = args.packages \ DOMAIN shards_map

C11_Witness ==
    /\ pc = "listed"
    /\ changed # <<>>
    /\ shards_map[changed[1]] \notin DOMAIN shardFiles
    /\ depsFile # {} /\ hashesFile # {}
    /\ new_hashes # Snapshot(hashesFile)

\* The three outcomes C12 allows a call of download_shards_index, as a step
\* from the state before the call to the state after it.
NotModifiedStep ==
    /\ ~args.force /\ etagFile # {} /\ indexFile # {}
    /\ pc' = "diff" /\ ~index_updated'
    /\ indexFile' = indexFile /\ etagFile' = etagFile
    /\ shards_map' = DecodeIndex(CHOOSE d \in indexFile : TRUE).shards

StoredStep ==
    /\ pc' = "diff" /\ index_updated'
    /\ shards_map' = upShards
    /\ indexFile' = {IndexBytes(upShards)}
    /\ etagFile' = {ETagOf(upShards)}

PropagatedStep ==
    /\ pc' = "crashed"
    /\ indexFile' = indexFile /\ etagFile' = etagFile

\* C12 as stated: unless --force the request carries the stored ETag; a call
\* either gets a not-modified answer and returns the index decoded from the
\* stored bytes with wasUpdated false, stored bytes and ETag unchanged; or
\* gets another success, stores the new bytes and the new ETag and returns
\* the decoded new index with wasUpdated true; or gets another status and
\* raises, the stored bytes and ETag unchanged.
C12_FetchIndex_AsStated ==
    [][(pc = "index" /\ pc' \in {"diff", "crashed"}) =>
          /\ IfNoneMatch(args.force) = (IF args.force THEN {} ELSE etagFile)
          /\ NotModifiedStep \/ StoredStep \/ PropagatedStep]_vars

\* C13 as stated: at every point of a run, where it can be interrupted, the
\* persisted snapshot and the persisted tracked hashes are either both what
\* they were when the run started or both what the run writes.
C13_AtomicPersistence_AsStated ==
    pc # "idle" =>
        \/ depsFile = start.depsFile /\ hashesFile = start.hashesFile
        \/ /\ pc \in {"save_hashes", "saved"}
           /\ depsFile = {new_deps} /\ hashesFile = {new_hashes}

\* The entry a persisted hash stands for: the representative of the shard
\* whose digest it is.
RepresentativeOf(h) ==
    UNION {extract_latest_from_shard(DecodeShard(b).shard).info :
              b \in {x \in Bytes : hex(sha256(x)) = h}}

\* Every run so far has completed and persisted, none was interrupted: this
\* is the first run, or the second after a first that saved both files.
OnlyPersistingRuns == runs = 1 \/ (runs = 2 /\ prev.saved)

\* C20 as stated: when a persisting run that follows only persisting runs,
\* upstream changes and shard fetch failures has written both files, every
\* name with a persisted tracked hash and a persisted snapshot entry has as
\* its entry the representative of the shard with that hash.
C20_SnapshotHashConsistent_AsStated ==
    (pc = "saved" /\ OnlyPersistingRuns) =>
        \A n \in DOMAIN Snapshot(hashesFile) \cap DOMAIN Snapshot(depsFile) :
            Snapshot(depsFile)[n] \in RepresentativeOf(Snapshot(hashesFile)[n])

\* The entry of a name in a persisted file: a set, empty when the file or
\* the entry is absent.
EntryOf(file, n) ==
    IF n \in DOMAIN Snapshot(file) THEN {Snapshot(file)[n]} ELSE {}

\* C21 as stated: when a persisting run over the tracked subset
\* args.packages has written both files, every name outside the subset has
\* the snapshot entry and the tracked-hash entry it had when the run
\* started.
C21_SubsetFrame_AsStated ==
    pc = "saved" =>
        \A n \in Names \ args.packages :
            /\ EntryOf(depsFile, n) = EntryOf(start.depsFile, n)
            /\ EntryOf(hashesFile, n) = EntryOf(start.hashesFile, n)

\* The stored index bytes decode to an index.
StoredIndexDecodes ==
    indexFile # {} => DecodeIndex(CHOOSE d \in indexFile : TRUE).ok

\* The stored ETag is the validator of the stored index bytes.
StoredETagMatches ==
    (indexFile # {} /\ etagFile # {}) =>
        etagFile = {ETagOf((CHOOSE d \in indexFile : TRUE).shards)}

\* C22 as stated: after any sequence of calls of download_shards_index the
\* stored ETag is the validator the server returned with the stored index
\* bytes, and the stored bytes decode to an index.
C22_IndexCacheConsistent_AsStated == StoredIndexDecodes /\ StoredETagMatches

\* A completed run in which every tracked name the index lists was
\* classified unchanged and has the representative of its current shard as
\* its persisted snapshot entry.
Converged ==
    /\ pc = "saved"
    /\ changed = <<>>
    /\ \A n \in Found :
          /\ EntryOf(depsFile, n) # {}
          /\ EntryOf(depsFile, n) \subseteq RepresentativeOf(hex(upShards[n]))

\* C23 as stated: once the upstream has stopped changing and every shard
\* download gets the right bytes, repeated persisting runs over the same
\* tracked names eventually reach a converged run.
C23_Convergence_AsStated == <>(Settled /\ Converged)

\* ------------------------------------------------------------------------
\* The version functions on bounded inputs
\* ------------------------------------------------------------------------
\* Strings over an alphabet, up to a length.
Strings(alphabet, n) == UNION {[1..k -> alphabet] : k \in 0..n}

VersionChars == {"0", "1", "2", ".", "-", "r", "sup2"}

PatternChars == {"x", "."}

SyncIdle == SyncInit /\ upShards = EmptyDict

VerInit ==
    /\ SyncIdle
    /\ version \in Strings(VersionChars, MaxVerLen)
    /\ upper_bound \in Strings(PatternChars, MaxPatLen)
    /\ parsed_sync = NotRun /\ parsed_graph = NotRun /\ bound = NotRun
    /\ ExtractIdle
    /\ GraphIdle

ParseSync ==
    /\ parsed_sync = NotRun
    /\ parsed_sync' = parse_version(version)
    /\ UNCHANGED <<syncVars, graphVars, version, upper_bound, parsed_graph, bound,
                   shard_in, extracted>>

ParseGraph ==
    /\ parsed_graph = NotRun
    /\ parsed_graph' = dep_graph_parse_version(version)
    /\ UNCHANGED <<syncVars, graphVars, version, upper_bound, parsed_sync, bound,
                   shard_in, extracted>>

VersionBound ==
    /\ bound = NotRun
    /\ bound' = version_bound(version, upper_bound)
    /\ UNCHANGED <<syncVars, graphVars, version, upper_bound, parsed_sync, parsed_graph,
                   shard_in, extracted>>

VerNext == ParseSync \/ ParseGraph \/ VersionBound

SpecVersion == VerInit /\ [][VerNext]_vars

\* parseVersion as the specification states it: split on "." and "-", and
\* from each segment take the value of its leading maximal run of decimal
\* digits, 0 when the segment does not start with one.
LeadingDecimalRun(p) ==
    LET n == CHOOSE k \in 0..Len(p) :
                 /\ \A i \in 1..k : p[i] \in DecimalDigits
                 /\ (k < Len(p) => p[k + 1] \notin DecimalDigits)
    IN  SubSeq(p, 1, n)

StatedParseVersion(ver) ==
    LET segs == SplitDot(ReplaceDash(ver))
    IN  [i \in 1..Len(segs) |-> DecimalValue(LeadingDecimalRun(segs[i]))]

\* boundedPrefix as the specification states it.
StatedBoundedPrefix(ver, pattern) ==
    LET n == count(pattern, "x")
        pv == StatedParseVersion(ver)
    IN  [i \in 1..n |-> IF i <= Len(pv) THEN pv[i] ELSE 0]

\* C8: parseVersion, in the Shard Cache and in the Rebuild Analyzer, is total
\* and gives for every version string the tuple of the values of the leading
\* runs of decimal digits of its segments (0 for a segment with none).
C8_ParseVersion_AsStated ==
    /\ parsed_sync # NotRun => parsed_sync = StatedParseVersion(version)
    /\ parsed_graph # NotRun => parsed_graph = StatedParseVersion(version)

\* C9: boundedPrefix(version, pattern), n being the number of placeholders of
\* the pattern, is the empty tuple when n = 0 and else the tuple of length n
\* of the first n components of parseVersion(version), padded with zeros.
C9_BoundedPrefix_AsStated ==
    bound # NotRun =>
        /\ Len(bound) = count(upper_bound, "x")
        /\ bound = StatedBoundedPrefix(version, upper_bound)

\* ------------------------------------------------------------------------
\* dep_graph.build_graph, rdeps and check_rebuilds
\* ------------------------------------------------------------------------
PkgNames == 1..MaxPkgs

\* An ABI export rule as gen_deps.parse_run_export writes it; an upper_bound
\* that is absent, null or "" is the empty string here (all are falsy).
Rule(exact, ub) == [exact |-> exact, upper_bound |-> ub, kind |-> "weak"]

\* Lines 57-66: one packages row per record, one edges row per host
\* dependency of each record.  The records are taken in the order of their
\* names; check_rebuilds sorts what it returns, so the order of the rows
\* does not show in it.
RECURSIVE EdgeRows(_, _, _)
EdgeRows(name, host_deps, dsts) ==
    IF Len(dsts) = 0 THEN <<>>
    ELSE <<[src |-> name, dst |-> Head(dsts), constraint |-> host_deps[Head(dsts)]]>>
         \o EdgeRows(name, host_deps, Tail(dsts))

RECURSIVE BuildRows(_, _)
BuildRows(d, names) ==
    IF Len(names) = 0 THEN [pkg_rows |-> <<>>, edge_rows |-> <<>>]
    ELSE LET name == Head(names)
             info == d[name]
             rest == BuildRows(d, Tail(names))
         IN  [pkg_rows |-> <<[name |-> name, version |-> info.version,
                              host_deps |-> info.host_deps,
                              run_exports |-> info.run_exports]>> \o rest.pkg_rows,
              edge_rows |-> EdgeRows(name, info.host_deps, sorted(DOMAIN info.host_deps))
                            \o rest.edge_rows]

build_graph(d) == BuildRows(d, sorted(DOMAIN d))

\* A node table of the package names only.
package_nodes(pkgs, edges) == {pkgs[i].name : i \in 1..Len(pkgs)}

\* Lines 90-94: the node table, the package names and the edge destinations.
all_nodes(pkgs, edges) ==
    {pkgs[i].name : i \in 1..Len(pkgs)} \cup {edges[i].dst : i \in 1..Len(edges)}

\* An rdeps that follows the edges forwards.
rdeps_forward(pkgs, edges, name) ==
    sorted({edges[i].dst : i \in {k \in 1..Len(edges) : edges[k].src = name}})

\* Lines 106-109: MATCH (p:Pkg)-[:DEP]->(d:Pkg) WHERE d.name = name
\* RETURN DISTINCT p.name, sorted.
rdeps(pkgs, edges, name) ==
    LET nodes == all_nodes(pkgs, edges)
    IN  sorted({edges[i].src : i \in {k \in 1..Len(edges) :
                   /\ edges[k].dst = name
                   /\ edges[k].src \in nodes
                   /\ edges[k].dst \in nodes}})

\* f"{name} {local_ver} -> {upstream_ver} (ub={ub})"
Reason(name, local_ver, upstream_ver, ub) ==
    [name |-> name, local |-> local_ver, upstream |-> upstream_ver, ub |-> ub]

\* Lines 167-170: the dependents of name, carrying [rebuilds, seen].
RECURSIVE DepLoop(_, _, _, _)
DepLoop(dependents, name, reason, acc) ==
    IF Len(dependents) = 0 THEN acc
    ELSE LET dep == Head(dependents)
             next == IF <<dep, name>> \in acc.seen THEN acc
                     ELSE [rebuilds |-> Append(acc.rebuilds, <<dep, name, reason>>),
                           seen |-> acc.seen \cup {<<dep, name>>}]
         IN  DepLoop(Tail(dependents), name, reason, next)

\* Lines 163-170: the export rules of one package.
RECURSIVE RuleLoop(_, _, _, _, _, _)
RuleLoop(rules, name, local_ver, upstream_ver, dependents, acc) ==
    IF Len(rules) = 0 THEN acc
    ELSE LET ub == Head(rules).upper_bound
             skip == \/ Len(ub) = 0
                     \/ version_bound(local_ver, ub) = version_bound(upstream_ver, ub)
             next == IF skip THEN acc
                     ELSE DepLoop(dependents, name,
                                  Reason(name, local_ver, upstream_ver, ub), acc)
         IN  RuleLoop(Tail(rules), name, local_ver, upstream_ver, dependents, next)

\* Lines 153-170: the rows of the packages dataset.
RECURSIVE RowLoop(_, _, _, _, _)
RowLoop(pkgs, edges, ups, i, acc) ==
    IF i > Len(pkgs) THEN acc
    ELSE LET row == pkgs[i]
             skip == \/ row.name \notin DOMAIN ups
                     \/ Len(row.run_exports) = 0
                     \/ Len(ups[row.name].version) = 0
                     \/ row.version = ups[row.name].version
             next == IF skip THEN acc
                     ELSE RuleLoop(row.run_exports, row.name, row.version,
                                   ups[row.name].version,
                                   rdeps(pkgs, edges, row.name), acc)
         IN  RowLoop(pkgs, edges, ups, i + 1, next)

\* a < b for rebuild triggers (dependent, package, reason); no two triggers
\* of a list share (dependent, package).
TriggerLess(a, b) == a[1] < b[1] \/ (a[1] = b[1] /\ a[2] < b[2])

RECURSIVE sorted_triggers(_)
sorted_triggers(s) ==
    IF s = {} THEN <<>>
    ELSE LET m == CHOOSE x \in s : \A y \in s \ {x} : TriggerLess(x, y)
         IN  <<m>> \o sorted_triggers(s \ {m})

\* Lines 144-172.
check_rebuilds(pkgs, edges, ups) ==
    sorted_triggers(Elems(
        RowLoop(pkgs, edges, ups, 1, [rebuilds |-> <<>>, seen |-> {}]).rebuilds))

\* The inputs: every package has the local version 1.2, host dependencies on
\* other names and one of four lists of export rules.
LocalVersion == <<"1", ".", "2">>

ExportLists ==
    {<<>>,
     <<Rule(FALSE, <<"x", ".", "x">>)>>,
     <<Rule(TRUE, <<>>)>>,
     <<Rule(TRUE, <<>>), Rule(FALSE, <<"x">>), Rule(FALSE, <<"x", ".", "x">>)>>}

PackageRecords(name) ==
    {[version |-> LocalVersion, host_deps |-> h, run_exports |-> e] :
        h \in UNION {[S -> {<<>>}] : S \in SUBSET (PkgNames \ {name})},
        e \in ExportLists}

\* Upstream versions: the local one, a minor bump, a patch bump, a version
\* with a letter in its last segment, and an entry without a version.  All
\* are made of decimal digits, letters and dots, so int() raises on none.
UpstreamVersions ==
    {LocalVersion, <<"1", ".", "3">>, <<"1", ".", "2", ".", "5">>,
     <<"1", ".", "2", "r", "1">>, <<>>}

Snapshots ==
    UNION {[S -> {[version |-> v] : v \in UpstreamVersions}] : S \in SUBSET PkgNames}

RebuildInit ==
    /\ SyncIdle /\ VerIdle
    /\ gpc = "input"
    /\ \E S \in SUBSET PkgNames :
          deps_json \in {d \in [S -> UNION {PackageRecords(n) : n \in PkgNames}] :
                       \A n \in S : d[n] \in PackageRecords(n)}
    /\ packages_ds = <<>> /\ edges_ds = <<>>
    /\ upstream = EmptyDict /\ rebuilds = <<>>
    /\ QueryIdle

BuildGraph ==
    /\ gpc = "input"
    /\ gpc' = "built"
    /\ packages_ds' = build_graph(deps_json).pkg_rows
    /\ edges_ds' = build_graph(deps_json).edge_rows
    /\ UNCHANGED <<syncVars, verVars, deps_json, upstream, rebuilds,
                   all_pkgs, query, answer>>

CheckRebuilds ==
    /\ gpc = "built"
    /\ gpc' = "checked"
    /\ \E ups \in Snapshots :
          /\ upstream' = ups
          /\ rebuilds' = check_rebuilds(packages_ds, edges_ds, ups)
    /\ UNCHANGED <<syncVars, verVars, deps_json, packages_ds, edges_ds,
                   all_pkgs, query, answer>>

RebuildNext == BuildGraph \/ CheckRebuilds

SpecRebuild == RebuildInit /\ [][RebuildNext]_vars

\* The triggers the claim expects: one for each (d, p) with p a package
\* whose upstream entry has another version, some rule of p with a non-empty
\* upper_bound under which the bounded prefixes differ, and d a direct
\* reverse dependency of p.
StatedTriggers ==
    {<<d, p>> \in PkgNames \X PkgNames :
        /\ p \in DOMAIN deps_json
        /\ p \in DOMAIN upstream
        /\ upstream[p].version # deps_json[p].version
        /\ \E j \in 1..Len(deps_json[p].run_exports) :
              LET ub == deps_json[p].run_exports[j].upper_bound
              IN  /\ Len(ub) > 0
                  /\ StatedBoundedPrefix(deps_json[p].version, ub)
                         # StatedBoundedPrefix(upstream[p].version, ub)
        /\ d \in DOMAIN deps_json
        /\ p \in DOMAIN deps_json[d].host_deps}

\* C7: check_rebuilds returns exactly one trigger (d, p, reason) for each
\* pair of StatedTriggers and no other, sorted lexicographically.
C7_Rebuilds_AsStated ==
    gpc = "checked" =>
        /\ {<<rebuilds[i][1], rebuilds[i][2]>> : i \in 1..Len(rebuilds)} = StatedTriggers
        /\ Len(rebuilds) = Cardinality(StatedTriggers)
        /\ \A i \in 1..(Len(rebuilds) - 1) : TriggerLess(rebuilds[i], rebuilds[i + 1])

\* ------------------------------------------------------------------------
\* gen_deps.main (--output json), dep_graph.build_graph and the queries
\* ------------------------------------------------------------------------
\* The number of renderer outputs gen_deps.py collects.
MaxOutputs == 3

\* gen_deps.main lines 148-156: the JSON object, one record per name.
RECURSIVE ResultLoop(_, _)
ResultLoop(pkgs, result) ==
    IF Len(pkgs) = 0 THEN result
    ELSE LET pkg == Head(pkgs)
             next == IF pkg.name \in DOMAIN result THEN result
                     ELSE Put(result, pkg.name,
                              [version |-> pkg.version, host_deps |-> pkg.host_deps,
                               run_exports |-> pkg.run_exports])
         IN  ResultLoop(Tail(pkgs), next)

gen_deps_json(pkgs) == ResultLoop(pkgs, EmptyDict)

\* Lines 112-115: MATCH (p:Pkg)-[:DEP]->(d:Pkg) WHERE p.name = name
\* RETURN DISTINCT d.name, sorted.
deps(pkgs, edges, name) ==
    LET nodes == all_nodes(pkgs, edges)
    IN  sorted({edges[i].dst : i \in {k \in 1..Len(edges) :
                   /\ edges[k].src = name
                   /\ edges[k].src \in nodes
                   /\ edges[k].dst \in nodes}})

\* A two-hop match that leaves out the chains coming back to their start.
chain_matches_acyclic(pkgs, edges, name) ==
    {m \in (1..Len(edges)) \X (1..Len(edges)) :
        /\ edges[m[1]].src = name
        /\ edges[m[1]].dst = edges[m[2]].src
        /\ edges[m[2]].dst # name}

\* Lines 118-123: the rows of MATCH (p:Pkg)-[:DEP]->(d1:Pkg)-[:DEP]->(d2:Pkg)
\* WHERE p.name = name, one for each pair of edge rows that meet in d1.
chain_matches(pkgs, edges, name) ==
    LET nodes == all_nodes(pkgs, edges)
    IN  {m \in (1..Len(edges)) \X (1..Len(edges)) :
            /\ edges[m[1]].src = name
            /\ edges[m[1]].dst = edges[m[2]].src
            /\ {edges[m[1]].src, edges[m[1]].dst, edges[m[2]].dst} \subseteq nodes}

\* The lists that hold each element of a set once: the orders in which an
\* unordered collection (a Python set, the rows of a query that has no ORDER
\* BY) may be enumerated.
Orderings(S) ==
    {f \in [1..Cardinality(S) -> S] :
        \A i, j \in 1..Cardinality(S) : i # j => f[i] # f[j]}

\* Lines 118-125: the rows as tuples, in the order the engine gives them.
dep_chain_2hop(pkgs, edges, name) ==
    {[k \in 1..Len(o) |->
         <<edges[o[k][1]].src, edges[o[k][1]].dst, edges[o[k][2]].dst>>] :
        o \in Orderings(chain_matches(pkgs, edges, name))}

\* Lines 90-94: pa.table({"name": list(names)}), names a Python set.
all_nodes_table(pkgs, edges) == Orderings(all_nodes(pkgs, edges))

\* The renderer outputs: a name, the version, host dependencies on other
\* names with or without a constraint, no export rule.
Constraints == {<<>>, <<">=1">>}

RenderedOutputs(n) ==
    {[name |-> n, version |-> LocalVersion, host_deps |-> h, run_exports |-> <<>>] :
        h \in UNION {[S -> Constraints] : S \in SUBSET (PkgNames \ {n})}}

RenderedRecords == UNION {RenderedOutputs(n) : n \in PkgNames}

GraphInit ==
    /\ SyncIdle /\ VerIdle
    /\ gpc = "render"
    /\ all_pkgs \in UNION {[1..k -> RenderedRecords] : k \in 0..MaxOutputs}
    /\ deps_json = EmptyDict
    /\ packages_ds = <<>> /\ edges_ds = <<>>
    /\ upstream = EmptyDict /\ rebuilds = <<>>
    /\ query = NoQuery /\ answer = <<>>

\* gen_deps.py --output json prints the object; build_graph reads it.
GenDeps ==
    /\ gpc = "render"
    /\ gpc' = "input"
    /\ deps_json' = gen_deps_json(all_pkgs)
    /\ UNCHANGED <<syncVars, verVars, packages_ds, edges_ds, upstream, rebuilds,
                   all_pkgs, query, answer>>

Answer(kind, name, result) ==
    /\ gpc = "built"
    /\ gpc' = "answered"
    /\ query' = [kind |-> kind, name |-> name]
    /\ answer' = result
    /\ UNCHANGED <<syncVars, verVars, deps_json, packages_ds, edges_ds, upstream,
                   rebuilds, all_pkgs>>

Rdeps == \E name \in PkgNames : Answer("rdeps", name, rdeps(packages_ds, edges_ds, name))

Deps == \E name \in PkgNames : Answer("deps", name, deps(packages_ds, edges_ds, name))

DepChain2Hop ==
    \E name \in PkgNames :
        \E result \in dep_chain_2hop(packages_ds, edges_ds, name) :
            Answer("dep_chain_2hop", name, result)

AllNodes ==
    \E result \in all_nodes_table(packages_ds, edges_ds) : Answer("all_nodes", 0, result)

GraphNext == GenDeps \/ BuildGraph \/ Rdeps \/ Deps \/ DepChain2Hop \/ AllNodes

SpecGraph == GraphInit /\ [][GraphNext]_vars

\* ------------------------------------------------------------------------
\* Properties of the graph
\* ------------------------------------------------------------------------
\* The edge relation: the pairs (src, dst) of the edges dataset.
EdgePairs == {<<edges_ds[i].src, edges_ds[i].dst>> : i \in 1..Len(edges_ds)}

\* C14: rdeps(name) holds exactly the p with an edge (p, name) and deps(name)
\* exactly the d with an edge (name, d), each once.
C14_ReverseForwardDeps ==
    /\ query.kind = "rdeps" =>
          /\ Elems(answer) = {p \in PkgNames : <<p, query.name>> \in EdgePairs}
          /\ NoDuplicates(answer)
    /\ query.kind = "deps" =>
          /\ Elems(answer) = {d \in PkgNames : <<query.name, d>> \in EdgePairs}
          /\ NoDuplicates(answer)

C14_Witness ==
    /\ query.kind = "rdeps"
    /\ Len(answer) = 2
    /\ query.name \notin DOMAIN deps_json
    /\ \E d \in PkgNames : <<query.name, d>> \notin EdgePairs /\ <<d, query.name>> \in EdgePairs

\* C15: dep_chain_2hop(name) holds exactly the triples (name, d1, d2) with
\* edges (name, d1) and (d1, d2), the chains that come back to name included.
C15_TwoHopChains ==
    query.kind = "dep_chain_2hop" =>
        Elems(answer) =
            {t \in {query.name} \X PkgNames \X PkgNames :
                <<t[1], t[2]>> \in EdgePairs /\ <<t[2], t[3]>> \in EdgePairs}

C15_Witness ==
    /\ query.kind = "dep_chain_2hop"
    /\ \E i, j \in 1..Len(answer) :
          /\ answer[i][3] = query.name
          /\ answer[j][3] # query.name

\* a < b in Python's order, for names and for triples of names.
TripleLess(a, b) ==
    \/ a[1] < b[1]
    \/ a[1] = b[1] /\ a[2] < b[2]
    \/ a[1] = b[1] /\ a[2] = b[2] /\ a[3] < b[3]

\* C16 as stated: what each of the four queries returns holds no element
\* twice and is sorted.
C16_QueriesSorted_AsStated ==
    gpc = "answered" =>
        /\ NoDuplicates(answer)
        /\ \A i \in 1..(Len(answer) - 1) :
              IF query.kind = "dep_chain_2hop"
              THEN TripleLess(answer[i], answer[i + 1])
              ELSE answer[i] < answer[i + 1]

\* The last renderer output of a name.
LastOutput(name) ==
    all_pkgs[CHOOSE i \in 1..Len(all_pkgs) :
                /\ all_pkgs[i].name = name
                /\ \A j \in (i + 1)..Len(all_pkgs) : all_pkgs[j].name # name]

\* C17 as stated: for every name among the renderer outputs the packages
\* dataset holds one row, made of the last output of that name.
C17_LastWins_AsStated ==
    gpc \in {"built", "answered"} =>
        \A name \in {all_pkgs[i].name : i \in 1..Len(all_pkgs)} :
            /\ Cardinality({i \in 1..Len(packages_ds) : packages_ds[i].name = name}) = 1
            /\ \A i \in 1..Len(packages_ds) :
                  packages_ds[i].name = name =>
                      /\ packages_ds[i].version = LastOutput(name).version
                      /\ packages_ds[i].host_deps = LastOutput(name).host_deps
                      /\ packages_ds[i].run_exports = LastOutput(name).run_exports

\* The host dependency entries of the packages: (p, d, c).
HostDepEntries ==
    {t \in (DOMAIN deps_json) \X PkgNames \X Constraints :
        /\ t[2] \in DOMAIN deps_json[t[1]].host_deps
        /\ deps_json[t[1]].host_deps[t[2]] = t[3]}

\* C18: after build_graph the edges dataset holds exactly one edge (p, d, c)
\* for each host_deps entry d -> c of each package p, the src of every edge
\* is the name of a row of the packages dataset, and the node set is the
\* package names together with the edge destinations.
C18_GraphStructure ==
    gpc \in {"built", "answered"} =>
        /\ {packages_ds[i].name : i \in 1..Len(packages_ds)} = DOMAIN deps_json
        /\ {<<edges_ds[i].src, edges_ds[i].dst, edges_ds[i].constraint>> :
               i \in 1..Len(edges_ds)} = HostDepEntries
        /\ Len(edges_ds) = Cardinality(HostDepEntries)
        /\ \A i \in 1..Len(edges_ds) :
              edges_ds[i].src \in {packages_ds[k].name : k \in 1..Len(packages_ds)}
        /\ all_nodes(packages_ds, edges_ds) =
               DOMAIN deps_json \cup {t[2] : t \in HostDepEntries}
        /\ query.kind = "all_nodes" =>
               /\ Elems(answer) = DOMAIN deps_json \cup {t[2] : t \in HostDepEntries}
               /\ NoDuplicates(answer)

C18_Witness ==
    /\ query.kind = "all_nodes"
    /\ Len(edges_ds) >= 2
    /\ \E i \in 1..Len(edges_ds) :
          /\ edges_ds[i].dst \notin DOMAIN deps_json
          /\ edges_ds[i].dst \in Elems(answer)
          /\ edges_ds[i].constraint # <<>>

\* ------------------------------------------------------------------------
\* extract_latest_from_shard on bounded shards
\* ------------------------------------------------------------------------
\* The entries of a sub-mapping of a shard.
MaxEntries == 2

FileNames == {"f1", "f2", "f3"}

\* The package entries: complete ones, one without a version, the empty
\* dict.  The versions order differently as strings and as tuples; the last
\* one has the digit-like character U+00B2 in a segment.
EntryVersions ==
    {<<"1", ".", "2">>, <<"1", ".", "1", "0">>, <<"1", ".", "2", ".", "0">>,
     <<"1", ".", "sup2">>}

Entries ==
    {Info(v, b) : v \in EntryVersions, b \in {0, 1}}
    \cup {[keys |-> {"build_number"}, version |-> <<>>, build_number |-> 1,
           build |-> <<>>, depends |-> <<>>]}
    \cup {[keys |-> {}, version |-> <<>>, build_number |-> 0,
           build |-> <<>>, depends |-> <<>>]}

\* The ordered dicts with at most n items: distinct file names.
SubMappings(n) ==
    {od \in UNION {[1..k -> FileNames \X Entries] : k \in 0..n} :
        \A i, j \in 1..Len(od) : i # j => od[i][1] # od[j][1]}

ExtractInit ==
    /\ SyncIdle /\ GraphIdle
    /\ version = <<>> /\ upper_bound = <<>>
    /\ parsed_sync = NotRun /\ parsed_graph = NotRun /\ bound = NotRun
    /\ shard_in \in [packages : SubMappings(MaxEntries), conda : SubMappings(1)]
    /\ extracted = {}

Extract ==
    /\ extracted = {}
    /\ extracted' = {extract_latest_from_shard(shard_in)}
    /\ UNCHANGED <<syncVars, graphVars, version, upper_bound, parsed_sync,
                   parsed_graph, bound, shard_in>>

ExtractNext == Extract

SpecExtract == ExtractInit /\ [][ExtractNext]_vars

\* The entries of the shard after the merge of its two sub-mappings: those
\* of packages.conda, and those of packages under another file name.
MergedEntries ==
    {shard_in.conda[i][2] : i \in 1..Len(shard_in.conda)} \cup
    {shard_in.packages[i][2] :
        i \in {k \in 1..Len(shard_in.packages) :
                  shard_in.packages[k][1] \notin Keys(shard_in.conda)}}

\* The pair (parseVersion(version), build_number) of an entry.
StatedKey(e) ==
    <<StatedParseVersion(InfoGet(e, "version", <<>>)), InfoGet(e, "build_number", 0)>>

\* C19 as stated: for every shard with a package entry the call returns a
\* representative, made of an entry of the merged shard whose pair is
\* maximal among the pairs of all its entries.
C19_Representative_AsStated ==
    \A r \in extracted :
        MergedEntries # {} =>
            /\ ~r.raised
            /\ \E e \in MergedEntries :
                  /\ r.info = {[version |-> InfoGet(e, "version", <<>>),
                                build_number |-> InfoGet(e, "build_number", 0),
                                build |-> InfoGet(e, "build", <<>>),
                                depends |-> InfoGet(e, "depends", <<>>)]}
                  /\ \A o \in MergedEntries : ~KeyGT(StatedKey(o), StatedKey(e))

====
